---- MODULE Spec2Model ----
(***************************************************************************)
(* A model of the axum-ratelimit crate (src/src/lib.rs): a provider holds  *)
(* a rate, a window length and a map from scope keys to buckets;           *)
(* RatelimitHandler::handle_request decides, per request, whether the      *)
(* request proceeds (Ok) or is short-circuited (Err) by the overflow hook  *)
(* handle_ratelimit.                                                       *)
(*                                                                         *)
(* Time is the monotonic clock Instant in whole ticks.  handle_request     *)
(* reads Instant::now() at three places (lines 199, 201 and 216); the      *)
(* handler is therefore modelled in steps, and the clock may tick between  *)
(* them.                                                                   *)
(*                                                                         *)
(* provider(self) (line 97) takes the handler by value, while buckets()    *)
(* (lines 106-108) and handle_request (lines 199, 215) call it on a        *)
(* borrowed handler and buckets() returns a reference into the value it    *)
(* got; line 202 passes self and bucket together.  rustc rejects the crate *)
(* as written.  Which map buckets() gives a call is therefore an outcome   *)
(* of the build, held in `access` from the start:                          *)
(*   "none"   the crate as written: nothing is built, no handler is ever   *)
(*            made or called;                                              *)
(*   "field"  buckets() gives the map held in the provider of the handler: *)
(*            one store that lasts from call to call.  handle_request      *)
(*            takes `&mut self` (line 192): the exclusive borrow is held   *)
(*            from the call to the return, the steps of two calls never    *)
(*            interleave, callers that arrive meanwhile wait;              *)
(*   "value"  buckets() gives the map of the provider value that           *)
(*            provider(self) hands out for the call, as lines 97 and 107   *)
(*            say: every call works on a map of its own, which is dropped  *)
(*            when the call returns.  The calls share nothing and no       *)
(*            borrow keeps them apart: their steps interleave.             *)
(*                                                                         *)
(* handle_ratelimit is written by the implementor and receives `&mut self`  *)
(* besides the bucket: a custom implementation may write the bucket, the   *)
(* other entries of the map and the provider.  The number of its           *)
(* invocations that write is bounded in a run, as the number of calls is.  *)
(*                                                                         *)
(* A panic unwinds the call it happens in; what the call had written to    *)
(* the map held in the handler before stays written.                       *)
(*                                                                         *)
(* u32 arithmetic is modelled at the reduced width U32Bits, Instant at the *)
(* reduced width InstantBits (TLC integers are 32-bit signed).             *)
(***************************************************************************)
EXTENDS Integers, Sequences, FiniteSets, TLC

\* ---- bounds of the model ----
MaxRate == 2
MaxPer == 1
MaxTime == 2
MaxCalls == 3
\* invocations of a custom handle_ratelimit that write, in one run
MaxPolicyWrites == 1
U32Bits == 2
\* resolution of the clocks: ticks in one second
TicksPerSecond == 2
\* the wall clock (ticks since the Unix epoch) at the monotonic instant 0
EpochTicks == 1
\* width of an Instant; a Duration is one bit wider (u64 against i64 seconds)
InstantBits == 7

Keys == {"a", "b"}
Tasks == {1, 2}
\* The implementations of the required method handle_ratelimit considered:
\* one that rejects and leaves the store alone, one that allows and leaves
\* the store alone, one that may return either verdict and write the store;
\* "default" is the implementation that leaves the method out, which the
\* compiler rejects (see New): no handler runs with it.
Policies == {"reject", "allow", "custom", "default"}

U32Mod == 2 ^ U32Bits

\* the last representable Instant
InstantMax == 2 ^ InstantBits - 1

\* Duration::MAX
DurationMax == 2 ^ (InstantBits + 1) - 1

\* the window lengths given to RatelimitProvider::new
Pers == 0..MaxPer \cup {DurationMax}

VARIABLES
    access,          \* the map buckets() gives a call: "none", "field", "value"
    constructed,     \* RatelimitProvider::new has run
    rate,            \* RatelimitProvider.rate
    per,             \* RatelimitProvider.per
    policy,          \* which handle_ratelimit the handler implements
    build,           \* "debug" (overflow checks) or "release" (wrapping), "any"
                     \* while no subtraction has overflowed: the builds agree so far
    buckets,         \* RatelimitProvider.buckets of the handler : key -> Bucket
    now,             \* Instant::now()
    holder,          \* the call that holds `&mut self`, or 0
    task,            \* per caller: position in handle_request and its locals
    ncalls,          \* calls made so far (bounds the run)
    served,          \* history: per key, calls that ran lines 196-199
    inits,           \* history: per key, times or_insert_with built a bucket
    counted,         \* history: per key, calls that ran line 212
    admitted,        \* history: per key, check times of the calls that returned Ok
    armed,           \* history: per key, the last write to the bucket was the
                     \* refill-and-arm of lines 215-216
    window,          \* history: per key, the reset_at that arming stored (0
                     \* when the last write was not the arming)
    pwrites          \* invocations of the custom handle_ratelimit that wrote the
                     \* store or the provider (bounds the run)

vars == <<access, constructed, rate, per, policy, build, buckets, now, holder,
          task, ncalls, served, inits, counted, admitted, armed, window, pwrites>>

\* ---- Bucket (lines 25-53) ----
Bucket(r, t) == [remaining |-> r, reset |-> t]

NoBucket == [remaining |-> 0, reset |-> 0]

\* HashMap::new() (line 85)
NoStore == [k \in {} |-> NoBucket]

\* Bucket::retry_after: self.1.duration_since(Instant::now()), which saturates
\* at zero when the reset instant is already past; t is its clock read.
retry_after_unclamped(b, t) == b.reset - t

retry_after(b, t) == IF b.reset > t THEN b.reset - t ELSE 0

\* SystemTime::now() (line 153), the wall clock running in step with Instant
SystemTimeNow(t) == EpochTicks + t

\* Duration::as_secs (line 156): whole seconds, the fraction dropped
as_secs(d) == d \div TicksPerSecond

\* Duration::as_secs_f64 (line 164): fractional seconds, kept as the exact
\* quotient <<ticks, ticks per second>>
as_secs_f64(d) == <<d, TicksPerSecond>>

\* ---- header names ----
\* A header name is the sequence of its characters.
XRatelimitLimit ==
    <<"X", "-", "R", "a", "t", "e", "l", "i", "m", "i", "t", "-", "L", "i", "m", "i", "t">>

XRatelimitRemaining ==
    <<"X", "-", "R", "a", "t", "e", "l", "i", "m", "i", "t", "-",
      "R", "e", "m", "a", "i", "n", "i", "n", "g">>

XRatelimitReset ==
    <<"X", "-", "R", "a", "t", "e", "l", "i", "m", "i", "t", "-", "R", "e", "s", "e", "t">>

RetryAfter == <<"R", "e", "t", "r", "y", "-", "A", "f", "t", "e", "r">>

\* A character is the one-character string of itself; the grave accent, which
\* no string here can hold, is the token below.
GraveAccent == "grave accent"

\* the characters HeaderName::from_static takes: the lower-case letters, the
\* digits and the marks of the header-name table of the http crate (the double
\* quote among them); no upper-case letter
StaticNameChars ==
    { "a", "b", "c", "d", "e", "f", "g", "h", "i", "j", "k", "l", "m",
      "n", "o", "p", "q", "r", "s", "t", "u", "v", "w", "x", "y", "z",
      "0", "1", "2", "3", "4", "5", "6", "7", "8", "9",
      "!", "\"", "#", "$", "%", "&", "'", "*", "+", "-", ".", "^", "_",
      GraveAccent, "|", "~" }

\* HeaderName::from_static (lines 124, 146, 151, 163): TRUE when the name is
\* taken, FALSE when the call panics ("invalid header name")
from_static(name) ==
    /\ Len(name) > 0
    /\ Len(name) < 2 ^ 16
    /\ \A i \in 1..Len(name) : name[i] \in StaticNameChars

\* ---- responses ----
\* A response is its header map; `panic` tells that the code working on it
\* has panicked, the headers being those inserted until then.  Header values
\* are kept as the numbers whose decimal text the code inserts.
NoHeaders == [h \in {} |-> 0]

Response(h) == [panic |-> FALSE, headers |-> h]

\* HeaderMap::insert
Insert(m, name, value) == [h \in DOMAIN m \cup {name} |-> IF h = name THEN value ELSE m[h]]

\* headers.insert(HeaderName::from_static(name), value) (lines 123-126,
\* 145-148, 150-160, 162-165): the name is built before the value
InsertStatic(response, name, value) ==
    IF response.panic THEN response
    ELSE IF from_static(name)
         THEN [response EXCEPT !.headers = Insert(@, name, value)]
         ELSE [response EXCEPT !.panic = TRUE]

\* append_ratelimit_info_headers (lines 120-127)
append_ratelimit_info_headers(response) == InsertStatic(response, XRatelimitLimit, rate)

\* lines 152-158: the value of X-Ratelimit-Reset; the wall clock of line 153
\* is read at t0, the monotonic clock (retry_after of line 153) at t1
ResetValue(b, t0, t1) == as_secs(SystemTimeNow(t0) + retry_after(b, t1))

\* line 164: the value of Retry-After; the monotonic clock is read at t2
RetryAfterValue(b, t2) == as_secs_f64(retry_after(b, t2))

\* append_ratelimit_limited_headers (lines 142-166)
append_ratelimit_limited_headers(b, response, t0, t1, t2) ==
    InsertStatic(InsertStatic(InsertStatic(response,
        XRatelimitRemaining, b.remaining),
        XRatelimitReset, ResetValue(b, t0, t1)),
        RetryAfter, RetryAfterValue(b, t2))

\* ---- handle_request, piece by piece ----
\* lines 196-199: entry(key).or_insert_with(|| Bucket(rate, Instant::now()))
OrInsert(m, k, b) == IF k \in DOMAIN m THEN m ELSE m @@ (k :> b)

\* lines 196-217: bucket is the &mut Bucket of the key's entry, so the writes
\* made through it land in that entry of the map
StoreAll(m, k, b) == [j \in DOMAIN m |-> b]

Store(m, k, b) == [m EXCEPT ![k] = b]

\* line 201: bucket.1 > Instant::now()
InCooldown(b, t) == b.reset > t

\* the values a custom handle_ratelimit may store: every u32, and every
\* instant up to the last one the engine can store within the run
PolicyRemaining == 0..U32Mod - 1

PolicyInstants == 0..MaxTime + MaxPer

\* the writes a custom handle_ratelimit may make through `bucket` (lines
\* 179-183 leave them to the implementor): any remaining with any reset_at,
\* the bucket as it is among them
PolicyWrites(b, t) ==
    {b} \cup {Bucket(r, s) : r \in PolicyRemaining, s \in PolicyInstants}

\* handle_ratelimit also receives `&mut self` (line 180), and with it the
\* whole map through buckets(): a custom implementation may write, remove and
\* insert entries (insert, remove(&key), clear()), the entry of k among them.
\* The maps it may leave: over any set of keys, the entry of k as it is
\* wherever it stays (the writes through `bucket` come on top).
PolicyStoreWrites(m, k) ==
    UNION { {s \in [D -> {m[j] : j \in DOMAIN m} \cup PolicyWrites(m[k], 0)] :
                k \in D => s[k] = m[k]} :
            D \in SUBSET Keys }

\* `&mut self` reaches the provider of the implementor as well, whose fields
\* rate and per are public (lines 64, 68): the values a custom implementation
\* may leave in them
PolicyProviderWrites ==
    {[rate |-> r, per |-> p] : r \in {rate} \cup (0..MaxRate), p \in {per} \cup Pers}

\* the responses an implementation may hand back inside Err: one without
\* headers, one that carries a header of its own
PolicyResponses ==
    { Response(NoHeaders), Response(<<"x", "-", "o", "t", "h", "e", "r">> :> 1) }

\* the store as a custom implementation may leave it: the entry of k gone,
\* or holding what was written through `bucket`
PolicyStores(m, k, t) ==
    {s \in PolicyStoreWrites(m, k) : k \notin DOMAIN s}
    \cup {Store(s, k, w) : s \in {x \in PolicyStoreWrites(m, k) : k \in DOMAIN x},
                           w \in PolicyWrites(m[k], t)}

\* an implementation that leaves the store and the provider alone
PolicyUnwritten(m, resps) ==
    {[resp |-> x.resp, response |-> x.response, store |-> m, rate |-> rate, per |-> per] :
        x \in resps}

\* handle_ratelimit (lines 179-183): the outcomes of one invocation for key k
\* on the store m: the Result, the response inside Err, and the store and the
\* provider as the implementation left them.  (Whatever it reads from
\* `request` is part of the choice of the outcome.)  The trait declares the
\* method without a body: where the implementor wrote none there is nothing
\* to run and no outcome (no handler is built that way, so no call gets
\* there).
handle_ratelimit(m, k, t) ==
    CASE policy = "default" -> {}
      [] policy = "reject" ->
            PolicyUnwritten(m, {[resp |-> "Err", response |-> Response(NoHeaders)]})
      [] policy = "allow" ->
            PolicyUnwritten(m, {[resp |-> "Ok", response |-> Response(NoHeaders)]})
      [] policy = "custom" /\ pwrites >= MaxPolicyWrites ->
            \* the run is bounded: past this many invocations that wrote,
            \* only the outcomes that write nothing are followed
            PolicyUnwritten(m, {[resp |-> "Ok", response |-> Response(NoHeaders)]}
                               \cup {[resp |-> "Err", response |-> r] : r \in PolicyResponses})
      [] OTHER ->
            {[resp |-> x.resp, response |-> x.response, store |-> s,
              rate |-> c.rate, per |-> c.per] :
                  s \in PolicyStores(m, k, t), c \in PolicyProviderWrites,
                  x \in {[resp |-> "Ok", response |-> Response(NoHeaders)]}
                        \cup {[resp |-> "Err", response |-> r] : r \in PolicyResponses}}

\* what a read through `bucket` gives after handle_ratelimit returned: the
\* entry of k, or, the entry being gone from the map, whatever lies where the
\* dangling reference points
BucketRead(m, k) ==
    IF k \in DOMAIN m THEN {m[k]}
    ELSE {Bucket(r, s) : r \in PolicyRemaining, s \in PolicyInstants}

\* lines 204-205: on Err the limited headers are added to the response the
\* policy returned; the three clocks of append_ratelimit_limited_headers are
\* read at t0, t1, t2
ErrResponse(b, response, t0, t1, t2) ==
    append_ratelimit_limited_headers(b, response, t0, t1, t2)

\* lines 204-209: what the call returns after handle_ratelimit returned resp
\* and, on Err, line 205 made `response`: Err is passed on unless line 205
\* panicked, anything else is Ok
ResultAlwaysErr(resp, response) == "Err"

Result(resp, response) ==
    IF resp = "Err" THEN (IF response.panic THEN "panic" ELSE "Err") ELSE "Ok"

\* lines 202-210: what the engine leaves in the bucket after the policy ran
AfterPolicy(b) == b

\* line 212: bucket.0 -= 1 on a u32 (wraps when overflow checks are off)
Decrement(n) == (n - 1) % U32Mod

\* Instant + Duration (line 216): -1 when the sum is not representable, where
\* the code panics ("overflow when adding duration to instant")
checked_add(t, d) == IF t + d <= InstantMax THEN t + d ELSE -1

\* lines 214-217: refill and arm the window when the counter reached zero;
\* line 215 has stored the rate when the addition of line 216 panics
RefillKeepZero(b, t) == IF b.remaining = 0 THEN Bucket(0, t + per) ELSE b

Refill(b, t) ==
    IF b.remaining = 0
    THEN IF checked_add(t, per) = -1
         THEN Bucket(rate, b.reset)
         ELSE Bucket(rate, checked_add(t, per))
    ELSE b

\* line 216 panics on the bucket b that line 212 left
RefillPanics(b, t) == b.remaining = 0 /\ checked_add(t, per) = -1

\* ---- callers ----
\* the header values a caller computed, with the clock reads that went in
NoValues == [reset |-> 0, retry |-> as_secs_f64(0), t0 |-> 0, t1 |-> 0, t2 |-> 0]

\* what a caller holds: its position, its key, what line 201 read (chk, seen,
\* and win, the reset_at the latest arming for the key had stored, 0 if none),
\* what handle_ratelimit returned (resp) and left, and how the call ended
Idle == [pc |-> "idle", key |-> "none", created |-> FALSE, chk |-> 0,
         seen |-> NoBucket, win |-> 0, resp |-> "none", left |-> NoStore,
         verdict |-> "none", headers |-> NoHeaders, map |-> NoStore,
         values |-> NoValues]

\* buckets() gives the map held in the handler
lasting == access = "field"

\* the map buckets() gives the call of caller t
Map(t) == IF lasting THEN buckets ELSE task[t].map

\* the entry of k in m, as a map of its own: empty when m has no entry for k
Only(m, k) == [j \in DOMAIN m \cap {k} |-> m[j]]

Init ==
    /\ access \in {"none", "field", "value"}
    /\ constructed = FALSE
    /\ rate = 0
    /\ per = 0
    /\ policy = "reject"
    /\ build = "any"
    /\ buckets = NoStore
    /\ now = 0
    /\ holder = 0
    /\ task = [t \in Tasks |-> Idle]
    /\ ncalls = 0
    /\ served = [k \in Keys |-> 0]
    /\ inits = [k \in Keys |-> 0]
    /\ counted = [k \in Keys |-> 0]
    /\ admitted = [k \in Keys |-> <<>>]
    /\ armed = [k \in Keys |-> FALSE]
    /\ window = [k \in Keys |-> 0]
    /\ pwrites = 0

\* RatelimitProvider::new (lines 81-88): every rate and per is accepted, and
\* the handler is built around the provider with the implementor's
\* handle_ratelimit.  The trait declares that method without a body (lines
\* 179-183): an implementation that leaves it out is rejected by the
\* compiler, and no handler comes to exist.
New(r, p, pol) ==
    /\ access # "none"
    /\ ~constructed
    /\ policy' = pol
    /\ constructed' = (pol # "default")
    /\ rate' = IF pol # "default" THEN r ELSE rate
    /\ per' = IF pol # "default" THEN p ELSE per
    /\ buckets' = NoStore
    /\ UNCHANGED <<access, build, now, holder, task, ncalls, served, inits,
                   counted, admitted, armed, window, pwrites>>

\* the monotonic clock advances
Tick ==
    /\ constructed
    /\ now < MaxTime
    /\ now' = now + 1
    /\ UNCHANGED <<access, constructed, rate, per, policy, build, buckets,
                   holder, task, ncalls, served, inits, counted, admitted,
                   armed, window, pwrites>>

\* callers are anonymous: a new call takes the lowest free caller slot
FreeSlot(t) == task[t].pc = "idle" /\ \A u \in Tasks : u < t => task[u].pc # "idle"

\* a caller invokes handle_request(request, key) (lines 191-195)
Call(t, k) ==
    /\ constructed
    /\ FreeSlot(t)
    /\ ncalls < MaxCalls
    /\ ncalls' = ncalls + 1
    /\ task' = [task EXCEPT ![t] = [Idle EXCEPT !.pc = "call", !.key = k]]
    /\ UNCHANGED <<access, constructed, rate, per, policy, build, buckets,
                   now, holder, served, inits, counted, admitted, armed,
                   window, pwrites>>

\* a request enters through Service::call (lines 238-240), which takes
\* `&mut self` too and is todo!(): it panics before any response exists
ServiceCall(t) ==
    /\ constructed
    /\ FreeSlot(t)
    /\ lasting => holder = 0
    /\ holder' = IF lasting THEN t ELSE holder
    /\ task' = [task EXCEPT ![t] = [Idle EXCEPT !.pc = "ret", !.verdict = "panic"]]
    /\ UNCHANGED <<access, constructed, rate, per, policy, build, buckets,
                   now, ncalls, served, inits, counted, admitted, armed,
                   window, pwrites>>

\* lines 196-199: what the step does to the handler and to the caller.  On
\* the map held in the handler the call first takes the exclusive borrow; on
\* a provider value of its own it starts from the map of the provider as
\* new built it, which no call ever wrote.
Enter(t) ==
    /\ task[t].pc = "call"
    /\ lasting => holder = 0
    /\ holder' = IF lasting THEN t ELSE holder
    /\ LET m == OrInsert(buckets, task[t].key, Bucket(rate, now)) IN
        /\ buckets' = IF lasting THEN m ELSE buckets
        /\ task' = [task EXCEPT ![t].pc = "check",
                                ![t].created = (task[t].key \notin DOMAIN buckets),
                                ![t].map = IF lasting THEN NoStore ELSE m]

\* lines 196-199
Entry(t) ==
    /\ Enter(t)
    /\ LET k == task[t].key IN
        /\ inits' = [inits EXCEPT ![k] = @ + (IF k \in DOMAIN buckets /\ buckets' = buckets THEN 0 ELSE 1)]
        /\ served' = [served EXCEPT ![k] = @ + 1]
    /\ UNCHANGED <<access, constructed, rate, per, policy, build, now, ncalls,
                   counted, admitted, armed, window, pwrites>>

\* caller t is at the step `at` of handle_request and may take it
At(t, at) == task[t].pc = at /\ (lasting => holder = t)

\* line 201
Check(t) ==
    /\ At(t, "check")
    /\ LET b == Map(t)[task[t].key] IN
        task' = [task EXCEPT ![t].pc = IF InCooldown(b, now) THEN "ratelimit" ELSE "count",
                             ![t].chk = now,
                             ![t].seen = b,
                             ![t].win = IF armed[task[t].key]
                                        THEN window[task[t].key] ELSE 0]
    /\ UNCHANGED <<access, constructed, rate, per, policy, build, buckets, now,
                   holder, ncalls, served, inits, counted, admitted, armed,
                   window, pwrites>>

\* lines 202-210.  On Err line 205 runs append_ratelimit_limited_headers,
\* whose first statement (line 146) panics before the bucket or any clock is
\* read; the response is dropped by the unwinding.  What handle_ratelimit
\* did to the map and to the provider stays.
Ratelimit(t) ==
    /\ At(t, "ratelimit")
    /\ LET k == task[t].key IN
       \E o \in handle_ratelimit(Map(t), k, now) :
       \E b \in BucketRead(o.store, k) :
        LET after == IF k \in DOMAIN o.store
                     THEN Store(o.store, k, AfterPolicy(o.store[k]))
                     ELSE o.store
            response == IF o.resp = "Err"
                        THEN ErrResponse(b, o.response, now, now, now)
                        ELSE o.response
            v == Result(o.resp, response)
        IN
        /\ buckets' = IF lasting THEN after ELSE buckets
        /\ rate' = IF lasting THEN o.rate ELSE rate
        /\ per' = IF lasting THEN o.per ELSE per
        /\ task' = [task EXCEPT ![t].pc = "ret",
                                ![t].resp = o.resp,
                                ![t].left = Only(o.store, k),
                                ![t].verdict = v,
                                ![t].headers = IF v = "Err" THEN response.headers
                                               ELSE NoHeaders,
                                ![t].map = IF lasting THEN NoStore ELSE after]
        /\ admitted' = [admitted EXCEPT ![k] = IF v = "Ok" THEN Append(@, task[t].chk) ELSE @]
        /\ armed' = [j \in Keys |->
                        /\ armed[j]
                        /\ o.rate = rate /\ o.per = per
                        /\ j \in DOMAIN Map(t) =>
                              (j \in DOMAIN o.store /\ o.store[j] = Map(t)[j])]
        /\ window' = [j \in Keys |-> IF armed'[j] THEN window[j] ELSE 0]
        /\ pwrites' = IF o.store = Map(t) /\ o.rate = rate /\ o.per = per
                      THEN pwrites ELSE pwrites + 1
    /\ UNCHANGED <<access, constructed, policy, build, now, holder,
                   ncalls, served, inits, counted>>

\* lines 212-219: what the step does to the handler and to the caller
Counting(t) ==
    /\ At(t, "count")
    /\ LET k == task[t].key
           b == Map(t)[k]
           dec == [b EXCEPT !.remaining = Decrement(b.remaining)]
           m == Store(Map(t), k, Refill(dec, now))
       IN
       \/ \* line 212, attempt to subtract with overflow: the call panics
          /\ b.remaining = 0
          /\ build \in {"any", "debug"}
          /\ build' = "debug"
          /\ task' = [task EXCEPT ![t].pc = "ret", ![t].verdict = "panic"]
          /\ UNCHANGED buckets
       \/ \* line 212 done; lines 214-217, where line 216 may panic; line 219
          /\ b.remaining = 0 => build \in {"any", "release"}
          /\ build' = IF b.remaining = 0 THEN "release" ELSE build
          /\ buckets' = IF lasting THEN m ELSE buckets
          /\ task' = [task EXCEPT ![t].pc = "ret",
                                  ![t].verdict = IF RefillPanics(dec, now)
                                                 THEN "panic" ELSE "Ok",
                                  ![t].map = IF lasting THEN NoStore ELSE m]

\* lines 212-219
Count(t) ==
    /\ Counting(t)
    /\ LET k == task[t].key
           b == Map(t)[k]
           ran == ~(b.remaining = 0 /\ build' = "debug")
           ok == task'[t].verdict = "Ok"
           arms == ok /\ Decrement(b.remaining) = 0
       IN
       /\ counted' = [counted EXCEPT ![k] = IF ran THEN @ + 1 ELSE @]
       /\ admitted' = [admitted EXCEPT ![k] = IF ok THEN Append(@, task[t].chk) ELSE @]
       /\ armed' = [armed EXCEPT ![k] = IF ran THEN arms ELSE @]
       /\ window' = [window EXCEPT ![k] =
                        IF ran THEN (IF arms THEN checked_add(now, per) ELSE 0) ELSE @]
    /\ UNCHANGED <<access, constructed, rate, per, policy, now, holder,
                   ncalls, served, inits, pwrites>>

\* the call returns (or unwinds): the borrow ends, the provider value the
\* call worked on is dropped
Return(t) ==
    /\ At(t, "ret")
    /\ holder' = IF lasting THEN 0 ELSE holder
    /\ task' = [task EXCEPT ![t] = Idle]
    /\ UNCHANGED <<access, constructed, rate, per, policy, build, buckets, now,
                   ncalls, served, inits, counted, admitted, armed, window,
                   pwrites>>

Next ==
    \/ \E r \in 0..MaxRate, p \in Pers, pol \in Policies : New(r, p, pol)
    \/ Tick
    \/ \E t \in Tasks, k \in Keys : Call(t, k)
    \/ \E t \in Tasks : ServiceCall(t)
    \/ \E t \in Tasks : Entry(t)
    \/ \E t \in Tasks : Check(t)
    \/ \E t \in Tasks : Ratelimit(t)
    \/ \E t \in Tasks : Count(t)
    \/ \E t \in Tasks : Return(t)

Spec == Init /\ [][Next]_vars

\* ---- the scenario of one key called at fixed instants ----
\* rate = 2, per = 10 s; calls for key "a" at the seconds 0, 1, 2, 3 and 13,
\* each call running to its return at the instant it is made, under a
\* handle_ratelimit that leaves the store alone.  The same calls are also made
\* on a provider with the longest window, Duration::MAX.
TraceCfg == [rate |-> 2, per |-> 10 * TicksPerSecond, key |-> "a"]

TraceSeconds == <<0, 1, 2, 3, 13>>

TraceTimes == [i \in 1..Len(TraceSeconds) |-> TraceSeconds[i] * TicksPerSecond]

AllIdle == \A t \in Tasks : task[t].pc = "idle"

\* RatelimitProvider::new(2, 10 s) or new(2, Duration::MAX) (lines 81-88)
TraceNew ==
    \E p \in {TraceCfg.per, DurationMax}, pol \in {"reject", "allow"} :
        New(TraceCfg.rate, p, pol)

\* the clock advances between the calls, once the call due now was made
TraceTick ==
    /\ constructed
    /\ AllIdle
    /\ now < TraceTimes[Len(TraceTimes)]
    /\ \A i \in 1..Len(TraceTimes) : TraceTimes[i] = now => ncalls >= i
    /\ now' = now + 1
    /\ UNCHANGED <<access, constructed, rate, per, policy, build, buckets,
                   holder, task, ncalls, served, inits, counted, admitted,
                   armed, window, pwrites>>

\* the next call of the scenario: handle_request(request, "a") (lines 191-195)
TraceCall(t) ==
    /\ constructed
    /\ AllIdle
    /\ FreeSlot(t)
    /\ ncalls < Len(TraceTimes)
    /\ TraceTimes[ncalls + 1] = now
    /\ ncalls' = ncalls + 1
    /\ task' = [task EXCEPT ![t] = [Idle EXCEPT !.pc = "call", !.key = TraceCfg.key]]
    /\ UNCHANGED <<access, constructed, rate, per, policy, build, buckets,
                   now, holder, served, inits, counted, admitted, armed,
                   window, pwrites>>

NextTrace ==
    \/ TraceNew
    \/ TraceTick
    \/ \E t \in Tasks : TraceCall(t)
    \/ \E t \in Tasks : Entry(t)
    \/ \E t \in Tasks : Check(t)
    \/ \E t \in Tasks : Ratelimit(t)
    \/ \E t \in Tasks : Count(t)
    \/ \E t \in Tasks : Return(t)

SpecTrace == Init /\ [][NextTrace]_vars

\* ---- callers that never stop, under a clock that never stops ----
\* rate >= 1, per > 0 and the rejecting policy that does not write the store.
\* The code only compares instants (line 201) and adds a duration to the
\* clock (line 216), so instants are kept relative to the clock here: the
\* clock reads 0 throughout and a tick moves every stored instant one tick
\* towards the past, an instant already reached staying "reached".  Caller 1
\* keeps calling for key "a", caller 2 for key "b"; the calls run in the steps
\* of handle_request, the clock ticking between them, and the history
\* variables are left alone.
LiveKey(t) == IF t = 1 THEN "a" ELSE "b"

LiveInit ==
    /\ access \in {"field", "value"}
    /\ constructed = TRUE
    /\ rate \in 1..MaxRate
    /\ per \in Pers \ {0}
    /\ policy = "reject"
    /\ build = "any"
    /\ buckets = NoStore
    /\ now = 0
    /\ holder = 0
    /\ task = [t \in Tasks |-> Idle]
    /\ ncalls = 0
    /\ served = [k \in Keys |-> 0]
    /\ inits = [k \in Keys |-> 0]
    /\ counted = [k \in Keys |-> 0]
    /\ admitted = [k \in Keys |-> <<>>]
    /\ armed = [k \in Keys |-> FALSE]
    /\ window = [k \in Keys |-> 0]
    /\ pwrites = 0

\* every instant stored in the map m, one tick nearer
LiveShift(m) ==
    [k \in DOMAIN m |-> [m[k] EXCEPT !.reset = IF @ > now THEN @ - 1 ELSE @]]

\* the monotonic clock advances by one tick
LiveTick ==
    /\ buckets' = LiveShift(buckets)
    /\ task' = [t \in Tasks |-> [task[t] EXCEPT !.map = LiveShift(@)]]
    /\ UNCHANGED <<access, constructed, rate, per, policy, build, now, holder,
                   ncalls, served, inits, counted, admitted, armed, window,
                   pwrites>>

\* caller t invokes handle_request(request, LiveKey(t)) (lines 191-195)
LiveCall(t) ==
    /\ task[t].pc = "idle"
    /\ task' = [task EXCEPT ![t] = [Idle EXCEPT !.pc = "call", !.key = LiveKey(t)]]
    /\ UNCHANGED <<access, constructed, rate, per, policy, build, buckets,
                   now, holder, ncalls, served, inits, counted, admitted, armed,
                   window, pwrites>>

\* lines 196-199
LiveEntry(t) ==
    /\ Enter(t)
    /\ UNCHANGED <<access, constructed, rate, per, policy, build, now, ncalls,
                   served, inits, counted, admitted, armed, window, pwrites>>

\* lines 212-219
LiveCount(t) ==
    /\ Counting(t)
    /\ UNCHANGED <<access, constructed, rate, per, policy, now, holder, ncalls,
                   served, inits, counted, admitted, armed, window, pwrites>>

NextLive ==
    \/ LiveTick
    \/ \E t \in Tasks : LiveCall(t)
    \/ \E t \in Tasks : LiveEntry(t)
    \/ \E t \in Tasks : Check(t)
    \/ \E t \in Tasks : Ratelimit(t)
    \/ \E t \in Tasks : LiveCount(t)
    \/ \E t \in Tasks : Return(t)

\* the clock keeps advancing, requests keep arriving for every key, a call
\* that waits for the handler gets it, and a call under way runs on
SpecLive ==
    /\ LiveInit
    /\ [][NextLive]_vars
    /\ WF_vars(LiveTick)
    /\ \A t \in Tasks :
          /\ WF_vars(LiveCall(t))
          /\ SF_vars(LiveEntry(t))
          /\ WF_vars(Check(t))
          /\ WF_vars(Ratelimit(t))
          /\ WF_vars(LiveCount(t))
          /\ WF_vars(Return(t))


\* ---- the header values of a rejected call as functions of their inputs ----
\* Bucket::retry_after (lines 50-52) and the value expressions of lines
\* 152-158 and 164 are applied to any bucket at any clock, whatever becomes of
\* the names they are inserted under.  The bucket of key "a" holds any
\* remaining and any reset_at; handle_ratelimit may write it again, moving
\* reset_at into the past among others.
HeaderKey == "a"

HeaderInit ==
    /\ access = "field"
    /\ constructed = TRUE
    /\ rate \in 1..MaxRate
    /\ per \in 0..MaxPer
    /\ policy = "custom"
    /\ build = "any"
    /\ buckets \in {(HeaderKey :> Bucket(r, s)) : r \in PolicyRemaining, s \in PolicyInstants}
    /\ now = 0
    /\ holder = 0
    /\ task = [t \in Tasks |-> Idle]
    /\ ncalls = 0
    /\ served = [k \in Keys |-> 0]
    /\ inits = [k \in Keys |-> 0]
    /\ counted = [k \in Keys |-> 0]
    /\ admitted = [k \in Keys |-> <<>>]
    /\ armed = [k \in Keys |-> FALSE]
    /\ window = [k \in Keys |-> 0]
    /\ pwrites = 0

\* the monotonic clock advances, beyond every reset_at a bucket can hold
HeaderTick ==
    /\ now <= MaxTime + MaxPer
    /\ now' = now + 1
    /\ UNCHANGED <<access, constructed, rate, per, policy, build, buckets,
                   holder, task, ncalls, served, inits, counted, admitted,
                   armed, window, pwrites>>

\* handle_ratelimit writes through `bucket` (lines 179-183)
HeaderPolicy ==
    /\ \A t \in Tasks : task[t].pc = "idle"
    /\ \E w \in PolicyWrites(buckets[HeaderKey], now) :
          buckets' = Store(buckets, HeaderKey, w)
    /\ UNCHANGED <<access, constructed, rate, per, policy, build, now,
                   holder, task, ncalls, served, inits, counted, admitted,
                   armed, window, pwrites>>

\* the instants the clocks of the header code can show
HeaderClocks == 0..MaxTime + MaxPer + 1

\* lines 152-158 and 164: the values of X-Ratelimit-Reset and Retry-After for
\* the bucket, the clocks read one after the other at t0 (SystemTime::now(),
\* line 153), t1 (retry_after, line 153) and t2 (retry_after, line 164), any
\* time apart
HeaderValues(t) ==
    /\ FreeSlot(t)
    /\ \E t0, t1, t2 \in HeaderClocks :
          /\ now <= t0
          /\ t0 <= t1 /\ t1 <= t2
          /\ now' = t2
          /\ task' = [task EXCEPT ![t] =
                [Idle EXCEPT !.pc = "ret", !.key = HeaderKey,
                             !.seen = buckets[HeaderKey],
                             !.values = [reset |-> ResetValue(buckets[HeaderKey], t0, t1),
                                         retry |-> RetryAfterValue(buckets[HeaderKey], t2),
                                         t0 |-> t0, t1 |-> t1, t2 |-> t2]]]
    /\ UNCHANGED <<access, constructed, rate, per, policy, build, buckets,
                   holder, ncalls, served, inits, counted, admitted,
                   armed, window, pwrites>>

\* the values are handed over
HeaderDone(t) ==
    /\ task[t].pc = "ret"
    /\ task' = [task EXCEPT ![t] = Idle]
    /\ UNCHANGED <<access, constructed, rate, per, policy, build, buckets, now,
                   holder, ncalls, served, inits, counted, admitted,
                   armed, window, pwrites>>

NextHeader ==
    \/ HeaderTick
    \/ HeaderPolicy
    \/ \E t \in Tasks : HeaderValues(t)
    \/ \E t \in Tasks : HeaderDone(t)

SpecHeader == HeaderInit /\ [][NextHeader]_vars

\* ---- vocabulary of the properties ----
\* caller t is inside handle_request, past lines 196-199
InCall(t) ==
    task[t].pc \in {"check", "ratelimit", "count", "ret"} /\ task[t].key \in Keys

\* the maps there are: the one held in the handler and those of the calls
Stores == {buckets} \cup {task[t].map : t \in Tasks}

\* caller t is past the test of line 201
PastCheck(t) == InCall(t) /\ task[t].pc \in {"ratelimit", "count", "ret"}

\* caller t was handed to handle_ratelimit (about to run it, or it has run)
Routed(t) == task[t].pc = "ratelimit" \/ (task[t].pc = "ret" /\ task[t].resp # "none")

\* calls of key k admitted with check time in [t, t + per)
AdmittedIn(k, t) ==
    Cardinality({i \in 1..Len(admitted[k]) :
                    t <= admitted[k][i] /\ admitted[k][i] < t + per})

LimitedNames == {XRatelimitRemaining, XRatelimitReset, RetryAfter}

\* C1: with rate >= 1, per > 0 and a handle_ratelimit that always rejects and
\* never writes the bucket, for every key and every instant t at most `rate`
\* calls that returned Ok have their call time (the clock read of line 201)
\* in [t, t + per).
RateGuarantee ==
    (constructed /\ rate >= 1 /\ per >= 1 /\ policy = "reject") =>
        \A k \in Keys, t \in 0..MaxTime : AdmittedIn(k, t) <= rate

\* C2: each of the first `rate` calls for a key never seen before returns Ok,
\* whether or not the clock advances between them, and the very first call for
\* a fresh key is never routed as being in cooldown.
FirstCallsProceed ==
    \A t \in Tasks : InCall(t) =>
        /\ served[task[t].key] <= rate =>
              /\ ~Routed(t)
              /\ task[t].pc = "ret" => task[t].verdict = "Ok"
        /\ served[task[t].key] = 1 => ~Routed(t)

\* C3: once a key has exhausted its allowance (a counting call armed the
\* window and nothing wrote the bucket since), every later call for the key
\* that makes the test of line 201 while now < reset_at is handed to
\* handle_ratelimit, as is every call that finds reset_at > now; and the
\* engine itself writes nothing on such a call: after it the entry of the key
\* is as the policy left it, whichever verdict the policy returned, and no
\* decrement was counted.
CooldownRoutedUntouched ==
    [][\A t \in Tasks :
        LET k == task[t].key IN
        /\ (task[t].pc = "check" /\ task'[t].pc # "check"
               /\ armed[k] /\ now < window[k])
              => task'[t].pc = "ratelimit"
        /\ (task[t].pc = "check" /\ task'[t].pc # "check"
               /\ Map(t)[k].reset > now)
              => task'[t].pc = "ratelimit"
        /\ (task[t].pc = "ratelimit" /\ task'[t].pc = "ret") =>
              /\ Only(Map(t)', k) = task'[t].left
              /\ counted' = counted
      ]_vars

\* C4: for a bucket that was armed and not written by the policy since, the
\* call that reads a clock >= reset_at at line 201 takes the counting path,
\* returns Ok without the policy being consulted, and decrements from a full
\* remaining = rate (leaving rate - 1 when rate > 1).
CooldownLapses ==
    [][\A t \in Tasks :
        LET k == task[t].key IN
        /\ (InCall(t) /\ armed[k] /\ task[t].pc = "check" /\ task'[t].pc # "check"
               /\ window[k] <= now)
              => task'[t].pc = "count"
        /\ (InCall(t) /\ armed[k] /\ task[t].pc = "count" /\ task'[t].pc = "ret")
              => /\ task'[t].verdict = "Ok"
                 /\ task'[t].resp = "none"
                 /\ Map(t)[k].remaining = rate
                 /\ rate > 1 => Map(t)'[k] = Bucket(rate - 1, Map(t)[k].reset)
                 /\ rate = 1 => Map(t)'[k] = Bucket(1, now + per)
      ]_vars

\* a call for a key whose window an earlier call had armed read a clock past
\* that reset_at, took the counting path from a full allowance and returned
\* Ok without the policy being consulted
CooldownLapsesWitness ==
    \E t \in Tasks :
        /\ InCall(t) /\ task[t].pc = "ret" /\ task[t].verdict = "Ok"
        /\ task[t].resp = "none"
        /\ rate >= 1 /\ per >= 1 /\ policy = "reject"
        /\ task[t].win >= per
        /\ task[t].win < task[t].chk
        /\ task[t].seen.remaining = rate
        /\ Map(t)[task[t].key].remaining = (IF rate > 1 THEN rate - 1 ELSE 1)

\* C5: every bucket of the store has 0 <= remaining <= rate, and right after
\* the exhaustion transition the stored remaining is rate, not 0.
RemainingInRange ==
    /\ \A m \in Stores : \A k \in DOMAIN m :
          0 <= m[k].remaining /\ m[k].remaining <= rate
    /\ \A t \in Tasks :
          (InCall(t) /\ task[t].pc = "ret" /\ task[t].resp = "none"
              /\ task[t].verdict = "Ok" /\ armed[task[t].key])
            => Map(t)[task[t].key].remaining = rate

\* C6: construction succeeds only for rate > 0 and per > 0, so no limiter
\* that exists has rate = 0 or per = 0.
PolicyValidated == constructed => (rate > 0 /\ per > 0)

\* calls of callers t and u for one key are under way together, both past
\* lines 196-199
Together(t, u) ==
    t # u /\ InCall(t) /\ InCall(u) /\ task[u].key = task[t].key

\* C7: concurrent first access creates exactly one bucket (stated for rate >=
\* 1 and a per the clock can take): as long as no handle_ratelimit has
\* written the map, a key for which two or more calls ran has exactly one
\* entry in the store, built once; an entry is built with remaining = rate;
\* and of calls for one key under way together, each works on that entry of
\* the store, none on a second bucket of its own.
ExactlyOneBucket ==
    (rate >= 1 /\ per \in 1..MaxPer) =>
    /\ \A k \in Keys : (pwrites = 0 /\ served[k] >= 2) =>
          /\ inits[k] = 1
          /\ k \in DOMAIN buckets
    /\ \A t \in Tasks :
          (InCall(t) /\ task[t].pc = "check" /\ task[t].created) =>
              /\ Map(t)[task[t].key].remaining = rate
              /\ Map(t)[task[t].key].reset <= now
    /\ \A t, u \in Tasks :
          (Together(t, u) /\ task[t].pc \in {"check", "ratelimit", "count"}) =>
              /\ task[t].key \in DOMAIN buckets
              /\ Map(t)[task[t].key] = buckets[task[t].key]

\* C8: no lost updates (stated for rate >= 1 and a per the clock can take):
\* of calls for one key under way together, the bucket a call read at line
\* 201 is the stored bucket of the key while the call acts on it; for a
\* policy that does not write the store, the stored bucket of a key that two
\* or more calls were made for reflects every call that took the counting
\* path (remaining = rate - (counted mod rate), reset_at the one of the
\* arming while armed); and the verdicts are those of calls run one after
\* the other: of the calls tested within one window at most `rate` returned
\* Ok under the rejecting policy.
NoLostUpdates ==
    (rate >= 1 /\ per \in 1..MaxPer) =>
    /\ \A t, u \in Tasks :
          (Together(t, u) /\ task[t].pc \in {"ratelimit", "count"}) =>
              /\ task[t].key \in DOMAIN buckets
              /\ buckets[task[t].key] = task[t].seen
    /\ (constructed /\ policy # "custom") =>
          \A k \in Keys : (served[k] >= 2 /\ counted[k] >= 1) =>
              /\ k \in DOMAIN buckets
              /\ buckets[k].remaining = rate - (counted[k] % rate)
              /\ armed[k] => buckets[k].reset = window[k]
    /\ (constructed /\ policy = "reject") =>
          \A k \in Keys, t \in 0..MaxTime : AdmittedIn(k, t) <= rate

\* the call of caller t ended on the Err path of lines 204-206: it returned
\* Err, or it panicked while line 205 made the response to return
ErrPath(t) ==
    task[t].verdict = "Err" \/ (task[t].verdict = "panic" /\ task[t].resp = "Err")

HeaderContract ==
    \A t \in Tasks : (InCall(t) /\ task[t].pc = "ret") =>
        /\ task[t].resp = "Err" =>
              /\ task[t].verdict = "Err"
              /\ XRatelimitLimit \in DOMAIN task[t].headers
              /\ LimitedNames \subseteq DOMAIN task[t].headers
        /\ task[t].resp # "Err" =>
              LimitedNames \cap DOMAIN task[t].headers = {}


\* C11: when the implementor supplied no handle_ratelimit, a default is in
\* effect: the handler exists, its policy, invoked for a key whose bucket is
\* in cooldown, has an answer, and every answer is Err; so a call in cooldown
\* is answered with Err.
DefaultRejects ==
    policy = "default" =>
        /\ constructed
        /\ \A k \in Keys :
              LET m == (k :> Bucket(rate, now + 1)) IN
              /\ handle_ratelimit(m, k, now) # {}
              /\ \A o \in handle_ratelimit(m, k, now) : o.resp = "Err"
        /\ \A t \in Tasks :
              (InCall(t) /\ task[t].pc = "ratelimit") =>
                  /\ handle_ratelimit(Map(t), task[t].key, now) # {}
                  /\ \A o \in handle_ratelimit(Map(t), task[t].key, now) :
                        o.resp = "Err"

\* the n-th call of the scenario has decided and not yet returned
TraceAt(t, n) == InCall(t) /\ task[t].pc = "ret" /\ ncalls = n

\* C12 (as stated): rate = 2, per = 10 s, fresh key: the calls at the seconds
\* 0, 1 and 2 proceed on the counting path, the exhaustion transition happens
\* on the call at second 2 and leaves remaining = 2, reset_at = 12 s; the call
\* at second 3 is routed to the overflow policy; the call at second 13 takes
\* the counting path and returns Ok with remaining = 1.
TraceAsStated ==
    per = TraceCfg.per =>
    \A t \in Tasks :
        /\ (TraceAt(t, 1) \/ TraceAt(t, 2) \/ TraceAt(t, 3)) =>
              (task[t].verdict = "Ok" /\ task[t].resp = "none")
        /\ TraceAt(t, 3) => Map(t)["a"] = Bucket(2, 12 * TicksPerSecond)
        /\ TraceAt(t, 4) => task[t].resp # "none"
        /\ TraceAt(t, 5) =>
              /\ task[t].verdict = "Ok" /\ task[t].resp = "none"
              /\ Map(t)["a"].remaining = 1

\* a call that found reset_at <= now at line 201 has decided
Counted(t) == InCall(t) /\ task[t].pc = "ret" /\ task[t].seen.reset <= task[t].chk

\* C13: a call that finds reset_at <= now with remaining = r returns Ok and,
\* if r > 1, leaves remaining = r - 1 and reset_at unchanged; if r = 1, it
\* sets remaining = rate and reset_at = now + per in the same step (now read
\* at line 216, between the test of the call and its return).
CountingStep ==
    \A t \in Tasks : Counted(t) =>
        LET r == task[t].seen.remaining
            b == Map(t)[task[t].key]
        IN
        /\ task[t].verdict = "Ok"
        /\ task[t].resp = "none"
        /\ r > 1 => b = Bucket(r - 1, task[t].seen.reset)
        /\ r = 1 => /\ b.remaining = rate
                    /\ task[t].chk + per <= b.reset
                    /\ b.reset <= now + per

LiveCounting(k) == k \in DOMAIN buckets /\ buckets[k].reset <= now

LiveCooldown(k) == k \in DOMAIN buckets /\ buckets[k].reset > now

\* C15: no terminal state: with rate >= 1, per > 0, a clock that advances
\* without bound, requests that keep arriving for a key (weak fairness on the
\* calls and on the ticks) and a policy that rejects without writing the
\* bucket, the bucket of the key is infinitely often in Counting and
\* infinitely often in Cooldown, and every Err for the key is eventually
\* followed by an Ok for the same key.
NoTerminalState ==
    \A t \in Tasks :
        /\ []<>LiveCounting(LiveKey(t))
        /\ []<>LiveCooldown(LiveKey(t))
        /\ (task[t].verdict = "Err") ~> (task[t].verdict = "Ok")

\* caller t runs lines 196-199 in this step
EntryStep(t) == task[t].pc = "call" /\ task'[t].pc = "check"

\* C16: store membership is lazy and monotone: apart from what
\* handle_ratelimit itself writes, a key is in the store exactly if a call
\* for it ran; the entry is created by the first call with remaining = rate
\* and reset_at = the creation instant (before that call's own decrement);
\* no call removes a key or re-initialises an entry, so a later call for a
\* known key builds no bucket and starts from the stored remaining and
\* reset_at.
StoreLazyMonotone ==
    [][pwrites' = pwrites =>
       /\ DOMAIN buckets \subseteq DOMAIN buckets'
       /\ pwrites = 0 => \A k \in Keys : (k \in DOMAIN buckets') <=> (served'[k] >= 1)
       /\ (DOMAIN buckets' # DOMAIN buckets) => \E t \in Tasks : EntryStep(t)
       /\ \A t \in Tasks : EntryStep(t) =>
             LET k == task[t].key IN
             /\ pwrites = 0 => (task'[t].created <=> served[k] = 0)
             /\ k \in DOMAIN buckets =>
                   (buckets' = buckets /\ Map(t)'[k] = buckets[k])
             /\ k \notin DOMAIN buckets =>
                   /\ DOMAIN buckets' = DOMAIN buckets \cup {k}
                   /\ buckets'[k] = [remaining |-> rate, reset |-> now]
                   /\ \A j \in DOMAIN buckets : buckets'[j] = buckets[j]
      ]_vars

\* C17: for every bucket and every instant, retry_after is max(reset_at - now,
\* 0): never negative, 0 whenever reset_at <= now (also when the policy moved
\* reset_at into the past), and the value computed for X-Ratelimit-Reset is
\* the wall clock now + retry_after in whole seconds; the value computed for
\* Retry-After is retry_after.
RetryAfterClamped ==
    /\ \A k \in DOMAIN buckets :
          /\ retry_after(buckets[k], now) >= 0
          /\ buckets[k].reset <= now => retry_after(buckets[k], now) = 0
          /\ buckets[k].reset > now =>
                now + retry_after(buckets[k], now) = buckets[k].reset
    /\ \A t \in Tasks : task[t].pc = "ret" =>
          LET b == task[t].seen
              v == task[t].values
              d1 == IF b.reset - v.t1 > 0 THEN b.reset - v.t1 ELSE 0
              d2 == IF b.reset - v.t2 > 0 THEN b.reset - v.t2 ELSE 0
          IN
          /\ v.reset * TicksPerSecond <= EpochTicks + v.t0 + d1
          /\ EpochTicks + v.t0 + d1 < (v.reset + 1) * TicksPerSecond
          /\ v.retry = <<d2, TicksPerSecond>>
          /\ b.reset <= v.t2 => v.retry[1] = 0

\* the values were computed for a bucket whose reset_at lies in the past, the
\* wall clock being past its first whole second: Retry-After is 0 and
\* X-Ratelimit-Reset is the wall clock in whole seconds
RetryAfterClampedWitness ==
    \E t \in Tasks :
        /\ task[t].pc = "ret"
        /\ task[t].seen.reset < task[t].values.t1
        /\ task[t].values.retry = <<0, TicksPerSecond>>
        /\ task[t].values.reset >= 1
        /\ task[t].values.reset * TicksPerSecond <= EpochTicks + task[t].values.t0

\* C18: handle_request never underflows the counter: for every provider a
\* validating new would return (rate > 0, per > 0; the others underflow on
\* their first call) and every overflow policy, the decrement of line 212 is
\* never executed on a bucket whose remaining is 0, and so the counting step
\* is never the place where a call ends without a verdict.
NoUnderflow ==
    (rate >= 1 /\ per >= 1) =>
    \A t \in Tasks :
        (InCall(t) /\ task[t].pc = "count") => Map(t)[task[t].key].remaining # 0

\* C19: per-key isolation. Apart from what handle_ratelimit itself writes, a
\* step of a handle_request call for key k leaves every other bucket as it
\* was, in the map of the handler and in the map of every other call (it
\* stays there with the same remaining and reset_at), and no step of any
\* call changes rate or per of the provider.
KeyIsolation ==
    [][pwrites' = pwrites =>
        /\ constructed => (rate' = rate /\ per' = per)
        /\ \A t \in Tasks :
             (task[t].pc # "idle" /\ task'[t] # task[t]) =>
                /\ \A j \in DOMAIN buckets \ {task[t].key} :
                      j \in DOMAIN buckets' /\ buckets'[j] = buckets[j]
                /\ \A u \in Tasks \ {t} :
                      \A j \in DOMAIN task[u].map \ {task[t].key} :
                          /\ j \in DOMAIN task'[u].map
                          /\ task'[u].map[j] = task[u].map[j]
      ]_vars

\* a counting call for one key has decided while a map holds the bucket of
\* another key, with one request counted on it
KeyIsolationWitness ==
    \E t \in Tasks : \E m \in Stores : \E j \in DOMAIN m \ {task[t].key} :
        /\ InCall(t) /\ task[t].pc = "ret" /\ task[t].verdict = "Ok"
        /\ task[t].resp = "none"
        /\ pwrites = 0 /\ rate = 2
        /\ m[j].remaining = 1
        /\ Map(t)[task[t].key].remaining = 1
====
